---- MODULE Spec2Model ----
(***************************************************************************)
(* Model of the SwachhSathi cloud functions (src/functions/index.js): the  *)
(* Firestore trigger handlers autoAssignNearestWorker, onReportAssigned,   *)
(* onReportResolved and onWorkerCreated over the document store, and the   *)
(* callables analyzeGarbageImage (Vision with its Gemini fallback) and     *)
(* compareBeforeAfter.                                                     *)
(***************************************************************************)
EXTENDS Integers, Sequences, FiniteSets, TLC

VARIABLES
    ngos,             \* collection "ngos": ngo id -> categories it handles
    users,            \* collection "users": uid -> document
    reports,          \* collection "reports": report id -> document
    reportStatus,     \* sub-collection "reportStatus" of each report
    assign,           \* autoAssignNearestWorker invocation per created report
    pendingAssigned,  \* report-updated events not yet seen by onReportAssigned
    pendingResolved,  \* report-updated events not yet seen by onReportResolved
    pendingWelcome,   \* user-created events not yet seen by onWorkerCreated
    lastWrite,        \* the report write made by the step just taken, if any
    last,             \* the notification handler run of the step just taken, if any
    budget,           \* environment steps taken so far
    cl,               \* the analyzeGarbageImage call in progress
    cb                \* the compareBeforeAfter call in progress

vars == <<ngos, users, reports, reportStatus, assign, pendingAssigned,
          pendingResolved, pendingWelcome, lastWrite, last, budget, cl, cb>>

storeVars == <<ngos, users, reports, reportStatus>>
triggerVars == <<ngos, users, reports, reportStatus, assign, pendingAssigned,
                 pendingResolved, pendingWelcome, lastWrite, last, budget>>

----------------------------------------------------------------------------
(* Bounds of the model *)

\* environment steps besides report creation: worker check-ins, writes to a
\* report by a worker or owner, user creations, repeated deliveries of a
\* report-created event
MaxEnvSteps == 2

----------------------------------------------------------------------------
(* Values *)

\* a field that is absent (undefined / null / "" are all falsy in the code)
None == ""
\* an absent location object
NoLoc == <<>>

ReportIds == {"r1", "r2"}
WorkerIds == {"w1", "w2"}
NgoIds == {"ngoA", "ngoB"}

\* query results come back ordered by document id
IdOrder == <<"n1", "ngoA", "ngoB", "r1", "r2", "u1", "u2", "w1", "w2">>

IdRank(id) == CHOOSE i \in 1..Len(IdOrder) : IdOrder[i] = id

RECURSIVE SortIds(_)
SortIds(S) ==
    IF S = {} THEN <<>>
    ELSE LET m == CHOOSE x \in S : \A y \in S : IdRank(x) <= IdRank(y)
         IN <<m>> \o SortIds(S \ {m})

\* JavaScript truthiness of a string field, of a number and of an object field
TruthyStr(x) == x # None
TruthyNum(x) == x # 0
TruthyObj(x) == x # NoLoc

----------------------------------------------------------------------------
(* GeoMath: getDistance (haversine), src/functions/index.js:793-808 *)

\* Coordinates are whole degrees 0..2.  HaversineMetres[lat1*3+lon1+1][lat2*3+lon2+1]
\* is R * c of the source formula for that pair, in metres (R = 6371 km),
\* evaluated in double precision and rounded to the metre; on this grid two
\* pairs have equal doubles exactly when they have equal metres.
HaversineMetres ==
    << <<0, 111195, 222390, 111195, 157249, 248629, 222390, 248629, 314475>>,
       <<111195, 0, 111195, 157249, 111195, 157249, 248629, 222390, 248629>>,
       <<222390, 111195, 0, 248629, 157249, 111195, 314475, 248629, 222390>>,
       <<111195, 157249, 248629, 0, 111178, 222356, 111195, 157225, 248569>>,
       <<157249, 111195, 157249, 111178, 0, 111178, 157225, 111195, 157225>>,
       <<248629, 157249, 111195, 222356, 111178, 0, 248569, 157225, 111195>>,
       <<222390, 248629, 314475, 111195, 157225, 248569, 0, 111127, 222254>>,
       <<248629, 222390, 248629, 157225, 111195, 157225, 111127, 0, 111127>>,
       <<314475, 248629, 222390, 248569, 157225, 111195, 222254, 111127, 0>> >>

getDistance(lat1, lon1, lat2, lon2) ==
    HaversineMetres[lat1 * 3 + lon1 + 1][lat2 * 3 + lon2 + 1]

\* Number.POSITIVE_INFINITY: above every distance
POSITIVE_INFINITY == 2000000000

----------------------------------------------------------------------------
(* The document store as the handlers find it *)

\* reports as the reporting app creates them (location, category, reporter)
ReportInputs ==
    { [location |-> <<1, 1>>, category |-> "Plastic Waste",  userId |-> "u1"],
      [location |-> <<1, 1>>, category |-> "Drain Cleaning", userId |-> "u2"],
      [location |-> <<1, 1>>, category |-> "Dead Animals",   userId |-> None],
      [location |-> NoLoc,    category |-> "Plastic Waste",  userId |-> "n1"],
      [location |-> <<0, 1>>, category |-> "Plastic Waste",  userId |-> "u1"],
      [location |-> <<1, 1>>, category |-> None,             userId |-> "u1"] }

\* positions a worker app reports; <<1, 0>> lies on the prime meridian
WorkerLocs == {NoLoc, <<1, 0>>, <<1, 2>>, <<2, 1>>}

\* FieldValue.serverTimestamp(): the value the server assigns is not modelled
ServerTimestamp == "serverTimestamp"

NewReport(in) ==
    [location |-> in.location, category |-> in.category, status |-> "created",
     assignedTo |-> None, ngoId |-> None, userId |-> in.userId,
     updatedAt |-> ServerTimestamp]

Worker(uid, ngoId, active, loc, token) ==
    [role |-> "worker", uid |-> uid, ngoId |-> ngoId, isActive |-> active,
     currentLocation |-> loc, fcmToken |-> token]

Citizen(uid, token) ==
    [role |-> "citizen", uid |-> uid, ngoId |-> None, isActive |-> FALSE,
     currentLocation |-> NoLoc, fcmToken |-> token]

NoWorker == [uid |-> None, ngoId |-> None, distance |-> POSITIVE_INFINITY]

NoEvent == [reportId |-> None, before |-> NewReport([location |-> NoLoc,
            category |-> None, userId |-> None]),
            after |-> NewReport([location |-> NoLoc, category |-> None,
            userId |-> None])]

IdleLast ==
    [handler |-> "none", event |-> NoEvent, user |-> None, lookup |-> "none",
     token |-> None, sends |-> <<>>, raised |-> FALSE]

\* the locals of autoAssignNearestWorker before it has read anything
NoLocals == [matchingNgoIds |-> <<>>, workersSnap |-> <<>>,
             nearestWorker |-> NoWorker]

IdleWrite == [reportId |-> None, writer |-> "none", before |-> NoEvent.before,
              after |-> NoEvent.after, locals |-> NoLocals]

NoResult ==
    [isGarbage |-> <<>>, category |-> "", severity |-> "", confidence |-> 0,
     detectedLabels |-> <<>>, objectCount |-> 0, analyzedBy |-> "none"]

\* a parsed reply object without any key
NoPayload ==
    [isGarbage |-> <<>>, category |-> <<>>, severity |-> <<>>,
     confidence |-> <<>>, detectedItems |-> <<>>]

\* a reply without candidates, or no reply at all
NoReply == [candidates |-> FALSE, text |-> <<>>, payload |-> NoPayload]

\* no analyzeGarbageImage call is in progress
IdleClassify ==
    [pc |-> "idle", imageUri |-> None, labels |-> <<>>, objectCount |-> 0,
     primary |-> "none", fetchOk |-> TRUE, callOk |-> TRUE, reply |-> NoReply,
     visionCalls |-> 0, fallbackCalls |-> 0, geminiCalls |-> 0,
     result |-> NoResult, error |-> <<>>]

NoCompareResult ==
    [isClean |-> FALSE, message |-> "", cleanlinessScore |-> 0,
     beforeLabels |-> <<>>, afterLabels |-> <<>>, garbageReduction |-> 0,
     beforeGarbageCount |-> 0, afterGarbageCount |-> 0]

\* a label detection response without labelAnnotations
NoAnnotations == [present |-> FALSE, labels |-> <<>>]

\* no compareBeforeAfter call is in progress
IdleCompare ==
    [pc |-> "idle", beforeImageUrl |-> None, afterImageUrl |-> None,
     beforeResult |-> NoAnnotations, afterResult |-> NoAnnotations,
     failedCall |-> "none", labelCalls |-> 0, afterCleanCount |-> 0,
     result |-> NoCompareResult, error |-> <<>>]

InitStore ==
    /\ ngos = [n \in NgoIds |->
                 IF n = "ngoA" THEN {"Plastic Waste"}
                 ELSE {"Plastic Waste", "Drain Cleaning"}]
    /\ users = [u \in {"w1", "w2", "u1", "u2"} |->
                  CASE u = "w1" -> Worker("w1", "ngoA", TRUE, <<1, 2>>, "tok_w1")
                    [] u = "w2" -> Worker("w2", "ngoB", TRUE, <<2, 1>>, None)
                    [] u = "u1" -> Citizen("u1", "tok_u1")
                    [] u = "u2" -> Citizen("u2", None)]
    /\ reports = <<>>
    /\ reportStatus = <<>>

Init ==
    /\ InitStore
    /\ assign = <<>>
    /\ pendingAssigned = <<>>
    /\ pendingResolved = <<>>
    /\ pendingWelcome = {}
    /\ lastWrite = IdleWrite
    /\ last = IdleLast
    /\ budget = 0
    /\ cl = IdleClassify
    /\ cb = IdleCompare

----------------------------------------------------------------------------
(* Environment: the reporting app, the worker app, owners *)

\* the step writes no report / completes no notification handler run
NoWrite == lastWrite' = IdleWrite
NoRun == last' = IdleLast

\* extend a function by one point
Put(f, k, v) == [x \in DOMAIN f \cup {k} |-> IF x = k THEN v ELSE f[x]]

\* every write to reports/{reportId} raises one report-updated event, which
\* onReportAssigned and onReportResolved each receive; each handler takes its
\* events in the order of the writes, at any later time
EmitUpdated(r, before, after) ==
    LET e == [reportId |-> r, before |-> before, after |-> after]
    IN /\ pendingAssigned' = Append(pendingAssigned, e)
       /\ pendingResolved' = Append(pendingResolved, e)

\* a report document is created; the create event is queued for
\* autoAssignNearestWorker with the created snapshot
CreateReport(r, in) ==
    /\ r \notin DOMAIN reports
    /\ r = "r2" => "r1" \in DOMAIN reports
    /\ reports' = Put(reports, r, NewReport(in))
    /\ reportStatus' = Put(reportStatus, r, <<>>)
    /\ assign' = Put(assign, r,
                     [pc |-> "queued", report |-> NewReport(in),
                      locals |-> NoLocals, outcome |-> "none"])
    /\ NoWrite /\ NoRun
    /\ UNCHANGED <<ngos, users, pendingAssigned, pendingResolved,
                   pendingWelcome, budget, cl, cb>>

\* the worker app checks in at a position, or goes off duty
WorkerCheckIn(w, active, loc) ==
    /\ budget < MaxEnvSteps
    /\ w \in DOMAIN users /\ users[w].role = "worker"
    /\ ~active => loc = users[w].currentLocation
    /\ <<users[w].isActive, users[w].currentLocation>> # <<active, loc>>
    /\ users' = [users EXCEPT ![w].isActive = active,
                              ![w].currentLocation = loc]
    /\ budget' = budget + 1
    /\ NoWrite /\ NoRun
    /\ UNCHANGED <<ngos, reports, reportStatus, assign, pendingAssigned,
                   pendingResolved, pendingWelcome, cl, cb>>

\* a worker or owner action writes a report: it marks the report resolved,
\* or sets or clears assignedTo by hand
ExternalPatches ==
    {[field |-> "status", value |-> "resolved"]}
      \cup {[field |-> "assignedTo", value |-> u] : u \in {None, "n1"}}

ApplyPatch(doc, p) ==
    IF p.field = "status"
    THEN [doc EXCEPT !.status = p.value, !.updatedAt = ServerTimestamp]
    ELSE [doc EXCEPT !.assignedTo = p.value, !.updatedAt = ServerTimestamp]

ExternalUpdate(r, p) ==
    /\ budget < MaxEnvSteps
    /\ r \in DOMAIN reports
    /\ reports' = [reports EXCEPT ![r] = ApplyPatch(@, p)]
    /\ lastWrite' = [reportId |-> r, writer |-> "external",
                     before |-> reports[r], after |-> reports'[r],
                     locals |-> NoLocals]
    /\ EmitUpdated(r, reports[r], reports'[r])
    /\ budget' = budget + 1
    /\ NoRun
    /\ UNCHANGED <<ngos, users, reportStatus, assign, pendingWelcome, cl, cb>>

\* a user document is created (createWorker writes role "worker" without a
\* notification target; the apps write the other shapes)
CreateUser(u, role, token) ==
    /\ budget < MaxEnvSteps
    /\ u \notin DOMAIN users
    /\ budget' = budget + 1
    /\ LET doc == IF role = "worker"
                  THEN Worker(u, "ngoA", FALSE, NoLoc, token)
                  ELSE Citizen(u, token)
       IN /\ users' = Put(users, u, doc)
          /\ pendingWelcome' = pendingWelcome \cup {doc}
    /\ NoWrite /\ NoRun
    /\ UNCHANGED <<ngos, reports, reportStatus, assign, pendingAssigned,
                   pendingResolved, cl, cb>>

----------------------------------------------------------------------------
(* autoAssignNearestWorker, src/functions/index.js:739-858 *)

\* .where("categories", "array-contains", report.category)
NgosQuery(category) ==
    SortIds({n \in DOMAIN ngos : category \in ngos[n]})

SeqRange(s) == {s[i] : i \in 1..Len(s)}

\* variant: the workers query without its isActive filter
WorkerMatches_IgnoresActive(doc, matchingNgoIds) ==
    /\ doc.role = "worker"
    /\ doc.ngoId \in SeqRange(matchingNgoIds)

\* .where("role","==","worker").where("isActive","==",true)
\* .where("ngoId","in",matchingNgoIds)
WorkerMatches(doc, matchingNgoIds) ==
    /\ doc.role = "worker"
    /\ doc.isActive = TRUE
    /\ doc.ngoId \in SeqRange(matchingNgoIds)

WorkersQuery(matchingNgoIds) ==
    LET ids == SortIds({u \in DOMAIN users :
                          WorkerMatches(users[u], matchingNgoIds)})
    IN [i \in 1..Len(ids) |-> users[ids[i]]]

\* variant: a currentLocation object counts, whatever its coordinates
HasLocation_Presence(worker) == TruthyObj(worker.currentLocation)

\* the worker carries a usable position (truthiness of the three fields)
HasLocation(worker) ==
    /\ TruthyObj(worker.currentLocation)
    /\ TruthyNum(worker.currentLocation[1])
    /\ TruthyNum(worker.currentLocation[2])

\* the comparison that replaces the nearest worker found so far
Nearer(dist, minDistance) == dist < minDistance

\* workersSnap.forEach(...) from position i on
RECURSIVE NearestLoop(_, _, _, _)
NearestLoop(report, workersSnap, i, nearestWorker) ==
    IF i > Len(workersSnap) THEN nearestWorker
    ELSE LET worker == workersSnap[i]
             dist == getDistance(report.location[1], report.location[2],
                                 worker.currentLocation[1],
                                 worker.currentLocation[2])
         IN IF HasLocation(worker) /\ Nearer(dist, nearestWorker.distance)
            THEN NearestLoop(report, workersSnap, i + 1,
                             [uid |-> worker.uid, ngoId |-> worker.ngoId,
                              distance |-> dist])
            ELSE NearestLoop(report, workersSnap, i + 1, nearestWorker)

\* if (!report || !report.location || !latitude || !longitude)
LocationMissing(report) ==
    \/ ~TruthyObj(report.location)
    \/ ~TruthyNum(report.location[1])
    \/ ~TruthyNum(report.location[2])

\* the handler returns normally / its promise rejects; its locals are gone
Finish(r, outcome) ==
    assign' = [assign EXCEPT ![r].pc = "returned", ![r].outcome = outcome,
                             ![r].locals = NoLocals]

Raise(r, where) ==
    assign' = [assign EXCEPT ![r].pc = "raised", ![r].outcome = where,
                             ![r].locals = NoLocals]

\* the handler starts: the two guards, then the NGO query is awaited
autoAssign_Ngos(r, ok) ==
    /\ r \in DOMAIN assign /\ assign[r].pc = "queued"
    /\ LET report == assign[r].report
       IN IF LocationMissing(report) THEN Finish(r, "locationMissing")
          ELSE IF ~TruthyStr(report.category) THEN Finish(r, "categoryMissing")
          ELSE IF ~ok THEN Raise(r, "ngosQuery")
          ELSE IF NgosQuery(report.category) = <<>> THEN Finish(r, "noNgos")
          ELSE assign' = [assign EXCEPT
                            ![r].pc = "workers",
                            ![r].locals.matchingNgoIds =
                                NgosQuery(report.category)]
    /\ NoWrite /\ NoRun
    /\ UNCHANGED <<storeVars, pendingAssigned, pendingResolved, pendingWelcome,
                   budget, cl, cb>>

\* the worker query is awaited, then the nearest worker is selected
autoAssign_Workers(r, ok) ==
    /\ r \in DOMAIN assign /\ assign[r].pc = "workers"
    /\ LET workersSnap == WorkersQuery(assign[r].locals.matchingNgoIds)
           nearestWorker == NearestLoop(assign[r].report, workersSnap, 1,
                                        NoWorker)
       IN IF ~ok THEN Raise(r, "workersQuery")
          ELSE IF workersSnap = <<>> THEN Finish(r, "noWorkers")
          ELSE IF ~TruthyStr(nearestWorker.uid)
          THEN Finish(r, "noLocatedWorker")
          ELSE assign' = [assign EXCEPT
                            ![r].pc = "update",
                            ![r].locals.workersSnap = workersSnap,
                            ![r].locals.nearestWorker = nearestWorker]
    /\ NoWrite /\ NoRun
    /\ UNCHANGED <<storeVars, pendingAssigned, pendingResolved, pendingWelcome,
                   budget, cl, cb>>

\* variant: a worker some report is already assigned to is not assigned again
AssignmentUpdate_SkipsBusyWorker(doc, nearestWorker) ==
    IF \E q \in DOMAIN reports : reports[q].assignedTo = nearestWorker.uid
    THEN doc
    ELSE [doc EXCEPT !.assignedTo = nearestWorker.uid,
                     !.updatedAt = ServerTimestamp]

\* variant: a report that is already assigned keeps its worker
AssignmentUpdate_KeepsAssignee(doc, nearestWorker) ==
    IF doc.assignedTo # None
    THEN doc
    ELSE [doc EXCEPT !.assignedTo = nearestWorker.uid,
                     !.updatedAt = ServerTimestamp]

\* variant: the update also marks the report resolved
AssignmentUpdate_Resolves(doc, nearestWorker) ==
    [doc EXCEPT !.assignedTo = nearestWorker.uid, !.status = "resolved",
                !.updatedAt = ServerTimestamp]

\* reports.doc(reportId).update({assignedTo, updatedAt})
AssignmentUpdate(doc, nearestWorker) ==
    [doc EXCEPT !.assignedTo = nearestWorker.uid, !.updatedAt = ServerTimestamp]

\* the update is awaited; the handler then logs and returns
autoAssign_Update(r, ok) ==
    /\ r \in DOMAIN assign /\ assign[r].pc = "update"
    /\ IF ~ok
       THEN /\ Raise(r, "update")
            /\ NoWrite
            /\ UNCHANGED <<reports, pendingAssigned, pendingResolved>>
       ELSE /\ reports' = [reports EXCEPT
                             ![r] = AssignmentUpdate(
                                        @, assign[r].locals.nearestWorker)]
            /\ lastWrite' = [reportId |-> r, writer |-> "autoAssign",
                             before |-> reports[r], after |-> reports'[r],
                             locals |-> assign[r].locals]
            /\ EmitUpdated(r, reports[r], reports'[r])
            /\ Finish(r, "assigned")
    /\ NoRun
    /\ UNCHANGED <<ngos, users, reportStatus, pendingWelcome, budget, cl, cb>>

\* the report-created event is delivered again (at-least-once delivery)
Redeliver(r) ==
    /\ r \in DOMAIN assign /\ assign[r].pc \in {"returned", "raised"}
    /\ budget < MaxEnvSteps
    /\ budget' = budget + 1
    /\ assign' = [assign EXCEPT ![r].pc = "queued", ![r].outcome = "none"]
    /\ NoWrite /\ NoRun
    /\ UNCHANGED <<storeVars, pendingAssigned, pendingResolved, pendingWelcome,
                   cl, cb>>

----------------------------------------------------------------------------
(* Notification handlers, src/functions/index.js:863-1006 *)

\* users.doc(uid).get(): the document data, or a document that does not exist
UserLookup(uid) ==
    IF uid \in DOMAIN users THEN [exists |-> TRUE, data |-> users[uid]]
    ELSE [exists |-> FALSE, data |-> Citizen(uid, None)]

Message(type, token, reportId) ==
    [type |-> type, token |-> token, reportId |-> reportId]

\* variant: a catch block that rethrows
Caught_Rethrows(threw) == threw

\* what a handler's catch block lets out of an error thrown in its try block
Caught(threw) == FALSE

\* result of one handler run: the lookup made, the target found, the
\* messages handed to messaging().send, and whether the handler raised
Run(lookup, token, sends, threw) ==
    [lookup |-> lookup, token |-> token, sends |-> sends,
     raised |-> Caught(threw)]

\* variant: the condition holds whenever assignedTo changes to a worker
AssignedCondition_OnChange(before, after) ==
    before.assignedTo # after.assignedTo /\ TruthyStr(after.assignedTo)

\* variant: the condition without its test of the before image
AssignedCondition_IgnoresBefore(before, after) ==
    TruthyStr(after.assignedTo)

\* if (!before.assignedTo && after.assignedTo)
AssignedCondition(before, after) ==
    ~TruthyStr(before.assignedTo) /\ TruthyStr(after.assignedTo)

ReportAssignedRun(e, lookupOk, sendOk) ==
    LET workerDoc == UserLookup(e.after.assignedTo)
        fcmToken == workerDoc.data.fcmToken
        msg == Message("task_assigned", fcmToken, e.reportId)
    IN IF ~AssignedCondition(e.before, e.after)
       THEN Run("none", None, <<>>, FALSE)
       ELSE IF ~lookupOk THEN Run("failed", None, <<>>, TRUE)
       ELSE IF ~workerDoc.exists THEN Run("notFound", None, <<>>, FALSE)
       ELSE IF ~TruthyStr(fcmToken) THEN Run("noToken", None, <<>>, FALSE)
       ELSE Run("found", fcmToken, <<[msg |-> msg, delivered |-> sendOk]>>,
                ~sendOk)

\* variant: the condition without its test of the resolved before image
ResolvedCondition_IgnoresBefore(before, after) ==
    /\ after.status = "resolved"
    /\ TruthyStr(after.userId)

\* if (before.status !== "resolved" && after.status === "resolved" && after.userId)
ResolvedCondition(before, after) ==
    /\ before.status # "resolved"
    /\ after.status = "resolved"
    /\ TruthyStr(after.userId)

ReportResolvedRun(e, lookupOk, sendOk) ==
    LET userDoc == UserLookup(e.after.userId)
        fcmToken == IF userDoc.exists THEN userDoc.data.fcmToken ELSE None
        msg == Message("report_resolved", fcmToken, e.reportId)
    IN IF ~ResolvedCondition(e.before, e.after)
       THEN Run("none", None, <<>>, FALSE)
       ELSE IF ~lookupOk THEN Run("failed", None, <<>>, TRUE)
       ELSE IF ~TruthyStr(fcmToken)
       THEN Run(IF userDoc.exists THEN "noToken" ELSE "notFound", None, <<>>,
                FALSE)
       ELSE Run("found", fcmToken, <<[msg |-> msg, delivered |-> sendOk]>>,
                ~sendOk)

\* if (userData.role === "worker" && userData.fcmToken)
WorkerCreatedRun(userData, sendOk) ==
    LET msg == Message("worker_welcome", userData.fcmToken, None)
    IN IF userData.role = "worker" /\ TruthyStr(userData.fcmToken)
       THEN Run("none", userData.fcmToken,
                <<[msg |-> msg, delivered |-> sendOk]>>, ~sendOk)
       ELSE Run("none", None, <<>>, FALSE)

Record(handler, e, user, run) ==
    /\ last' = [handler |-> handler, event |-> e, user |-> user,
                lookup |-> run.lookup, token |-> run.token,
                sends |-> run.sends, raised |-> run.raised]
    /\ NoWrite

onReportAssigned(e, lookupOk, sendOk) ==
    /\ pendingAssigned # <<>> /\ e = Head(pendingAssigned)
    /\ pendingAssigned' = Tail(pendingAssigned)
    /\ Record("onReportAssigned", e, e.after.assignedTo,
              ReportAssignedRun(e, lookupOk, sendOk))
    /\ UNCHANGED <<storeVars, assign, pendingResolved, pendingWelcome,
                   budget, cl, cb>>

onReportResolved(e, lookupOk, sendOk) ==
    /\ pendingResolved # <<>> /\ e = Head(pendingResolved)
    /\ pendingResolved' = Tail(pendingResolved)
    /\ Record("onReportResolved", e, e.after.userId,
              ReportResolvedRun(e, lookupOk, sendOk))
    /\ UNCHANGED <<storeVars, assign, pendingAssigned, pendingWelcome,
                   budget, cl, cb>>

onWorkerCreated(userData, sendOk) ==
    /\ userData \in pendingWelcome
    /\ pendingWelcome' = pendingWelcome \ {userData}
    /\ Record("onWorkerCreated", NoEvent, userData.uid,
              WorkerCreatedRun(userData, sendOk))
    /\ UNCHANGED <<storeVars, assign, pendingAssigned, pendingResolved,
                   budget, cl, cb>>

----------------------------------------------------------------------------
(* The triggers and their environment *)

TriggerNext(Rs) ==
    \/ \E r \in Rs, in \in ReportInputs : CreateReport(r, in)
    \/ \E w \in WorkerIds, a \in BOOLEAN, l \in WorkerLocs :
         WorkerCheckIn(w, a, l)
    \/ \E r \in Rs, p \in ExternalPatches : ExternalUpdate(r, p)
    \/ \E d \in {<<"worker", "tok_n1">>, <<"worker", None>>,
                  <<"citizen", "tok_n1">>} : CreateUser("n1", d[1], d[2])
    \/ \E r \in Rs, ok \in BOOLEAN : autoAssign_Ngos(r, ok)
    \/ \E r \in Rs, ok \in BOOLEAN : autoAssign_Workers(r, ok)
    \/ \E r \in Rs, ok \in BOOLEAN : autoAssign_Update(r, ok)
    \/ \E r \in Rs : Redeliver(r)
    \/ \E e \in SeqRange(pendingAssigned), lookupOk, sendOk \in BOOLEAN :
         onReportAssigned(e, lookupOk, sendOk)
    \/ \E e \in SeqRange(pendingResolved), lookupOk, sendOk \in BOOLEAN :
         onReportResolved(e, lookupOk, sendOk)
    \/ \E u \in pendingWelcome, sendOk \in BOOLEAN : onWorkerCreated(u, sendOk)

\* one report, its handlers and the environment around them
Next == TriggerNext({"r1"})

Spec == Init /\ [][Next]_vars

\* report creations and the autoAssignNearestWorker invocations they start
AssignNext(Rs) ==
    \/ \E r \in Rs, in \in ReportInputs : CreateReport(r, in)
    \/ \E r \in Rs, ok \in BOOLEAN : autoAssign_Ngos(r, ok)
    \/ \E r \in Rs, ok \in BOOLEAN : autoAssign_Workers(r, ok)
    \/ \E r \in Rs, ok \in BOOLEAN : autoAssign_Update(r, ok)

\* two reports whose invocations run concurrently over an unchanging store
\* of NGOs and workers
SpecPair == Init /\ [][AssignNext(ReportIds)]_vars

\* the invocations for the reports and every notification handler; the
\* first report can be marked resolved and a user document can be created
FrameNext(Rs) ==
    \/ AssignNext(Rs)
    \/ ExternalUpdate("r1", [field |-> "status", value |-> "resolved"])
    \/ \E d \in {<<"worker", "tok_n1">>, <<"worker", None>>,
                  <<"citizen", "tok_n1">>} : CreateUser("n1", d[1], d[2])
    \/ \E e \in SeqRange(pendingAssigned), lookupOk, sendOk \in BOOLEAN :
         onReportAssigned(e, lookupOk, sendOk)
    \/ \E e \in SeqRange(pendingResolved), lookupOk, sendOk \in BOOLEAN :
         onReportResolved(e, lookupOk, sendOk)
    \/ \E u \in pendingWelcome, sendOk \in BOOLEAN : onWorkerCreated(u, sendOk)

\* two reports and all handlers of the triggers
SpecFrame == Init /\ [][FrameNext(ReportIds)]_vars

\* one report whose handlers meet no collaborator failure; the workers check
\* in before the report is created and the store is left alone afterwards
LiveNext ==
    \/ /\ DOMAIN reports = {}
       /\ \E w \in WorkerIds, a \in BOOLEAN, l \in WorkerLocs :
            WorkerCheckIn(w, a, l)
    \/ \E in \in ReportInputs : CreateReport("r1", in)
    \/ autoAssign_Ngos("r1", TRUE)
    \/ autoAssign_Workers("r1", TRUE)
    \/ autoAssign_Update("r1", TRUE)
    \/ \E e \in SeqRange(pendingAssigned) : onReportAssigned(e, TRUE, TRUE)
    \/ \E e \in SeqRange(pendingResolved) : onReportResolved(e, TRUE, TRUE)

\* the platform runs every handler whose event is pending
SpecLive ==
    /\ Init /\ [][LiveNext]_vars
    /\ WF_vars(autoAssign_Ngos("r1", TRUE))
    /\ WF_vars(autoAssign_Workers("r1", TRUE))
    /\ WF_vars(autoAssign_Update("r1", TRUE))
    /\ WF_vars(\E e \in SeqRange(pendingAssigned) :
                  onReportAssigned(e, TRUE, TRUE))
    /\ WF_vars(\E e \in SeqRange(pendingResolved) :
                  onReportResolved(e, TRUE, TRUE))

----------------------------------------------------------------------------
(* analyzeGarbageImage, src/functions/index.js:275-567 *)

\* Strings the code inspects are sequences of one-character strings.
\* The category table, in declaration order (Object.keys order).
garbageKeywords ==
   <<
      [cat |-> "Dead Animals",
       keywords |-> <<
            <<"a", "n", "i", "m", "a", "l">>,
            <<"d", "e", "a", "d">>,
            <<"c", "a", "r", "c", "a", "s", "s">>,
            <<"c", "o", "r", "p", "s", "e">>,
            <<"p", "e", "t">>,
            <<"w", "i", "l", "d", "l", "i", "f", "e">>,
            <<"b", "i", "r", "d">>,
            <<"d", "o", "g">>,
            <<"c", "a", "t">> >>],
      [cat |-> "Garbage Collection",
       keywords |-> <<
            <<"g", "a", "r", "b", "a", "g", "e">>,
            <<"t", "r", "a", "s", "h">>,
            <<"w", "a", "s", "t", "e">>,
            <<"l", "i", "t", "t", "e", "r">>,
            <<"r", "u", "b", "b", "i", "s", "h">>,
            <<"d", "e", "b", "r", "i", "s">>,
            <<"d", "u", "m", "p">>,
            <<"r", "e", "f", "u", "s", "e">> >>],
      [cat |-> "Clean Public Space",
       keywords |-> <<
            <<"p", "u", "b", "l", "i", "c">>,
            <<"s", "p", "a", "c", "e">>,
            <<"a", "r", "e", "a">>,
            <<"p", "a", "r", "k">>,
            <<"s", "t", "r", "e", "e", "t">>,
            <<"r", "o", "a", "d">>,
            <<"s", "i", "d", "e", "w", "a", "l", "k">>,
            <<"p", "a", "t", "h", "w", "a", "y">> >>],
      [cat |-> "Overflowing Dustbins",
       keywords |-> <<
            <<"d", "u", "s", "t", "b", "i", "n">>,
            <<"b", "i", "n">>,
            <<"o", "v", "e", "r", "f", "l", "o", "w">>,
            <<"o", "v", "e", "r", "f", "l", "o", "w", "i", "n", "g">>,
            <<"f", "u", "l", "l">>,
            <<"c", "o", "n", "t", "a", "i", "n", "e", "r">>,
            <<"d", "u", "m", "p", "s", "t", "e", "r">>,
            <<"t", "r", "a", "s", "h", " ", "c", "a", "n">> >>],
      [cat |-> "Construction Waste",
       keywords |-> <<
            <<"c", "o", "n", "s", "t", "r", "u", "c", "t", "i", "o", "n">>,
            <<"d", "e", "b", "r", "i", "s">>,
            <<"c", "o", "n", "c", "r", "e", "t", "e">>,
            <<"b", "r", "i", "c", "k">>,
            <<"c", "e", "m", "e", "n", "t">>,
            <<"r", "u", "b", "b", "l", "e">>,
            <<"b", "u", "i", "l", "d", "i", "n", "g", " ", "m", "a", "t", "e", "r", "i", "a", "l">>,
            <<"d", "e", "m", "o", "l", "i", "t", "i", "o", "n">> >>],
      [cat |-> "Plastic Waste",
       keywords |-> <<
            <<"p", "l", "a", "s", "t", "i", "c">>,
            <<"b", "o", "t", "t", "l", "e">>,
            <<"b", "a", "g">>,
            <<"c", "o", "n", "t", "a", "i", "n", "e", "r">>,
            <<"p", "a", "c", "k", "a", "g", "i", "n", "g">>,
            <<"w", "r", "a", "p", "p", "e", "r">>,
            <<"p", "o", "l", "y", "t", "h", "e", "n", "e">>,
            <<"s", "t", "y", "r", "o", "f", "o", "a", "m">> >>],
      [cat |-> "Organic Waste",
       keywords |-> <<
            <<"f", "o", "o", "d">>,
            <<"o", "r", "g", "a", "n", "i", "c">>,
            <<"v", "e", "g", "e", "t", "a", "b", "l", "e">>,
            <<"f", "r", "u", "i", "t">>,
            <<"l", "e", "f", "t", "o", "v", "e", "r">>,
            <<"r", "o", "t", "t", "e", "n">>,
            <<"c", "o", "m", "p", "o", "s", "t">>,
            <<"b", "i", "o", "d", "e", "g", "r", "a", "d", "a", "b", "l", "e">> >>],
      [cat |-> "Drain Cleaning",
       keywords |-> <<
            <<"d", "r", "a", "i", "n">>,
            <<"s", "e", "w", "e", "r">>,
            <<"g", "u", "t", "t", "e", "r">>,
            <<"m", "a", "n", "h", "o", "l", "e">>,
            <<"d", "r", "a", "i", "n", "a", "g", "e">>,
            <<"b", "l", "o", "c", "k", "e", "d">>,
            <<"c", "l", "o", "g", "g", "e", "d">>,
            <<"w", "a", "t", "e", "r">> >>] >>

\* label descriptions as the labeling service returns them
LabelDescriptions ==
    { <<"D", "o", "g">>,
      <<"P", "l", "a", "s", "t", "i", "c", " ", "b", "a", "g">>,
      <<"T", "r", "a", "s", "h", " ", "c", "a", "n">>,
      <<"S", "k", "y">>,
      <<"C", "l", "o", "u", "d">>,
      <<"W", "a", "t", "e", "r", " ", "b", "o", "t", "t", "l", "e">> }

\* String.prototype.toLowerCase on the letters that occur
toLowerCaseChar(c) ==
    CASE c = "C" -> "c"
      [] c = "D" -> "d"
      [] c = "E" -> "e"
      [] c = "P" -> "p"
      [] c = "S" -> "s"
      [] c = "T" -> "t"
      [] c = "W" -> "w"
      [] OTHER -> c

toLowerCase(str) == [i \in 1..Len(str) |-> toLowerCaseChar(str[i])]

\* String.prototype.includes
includes(str, sub) ==
    \E i \in 0..(Len(str) - Len(sub)) :
        \A j \in 1..Len(sub) : str[i + j] = sub[j]

\* garbageKeywords[cat].some((keyword) => desc.includes(keyword))
CategoryMatches(k, desc) ==
    \E i \in 1..Len(garbageKeywords[k].keywords) :
        includes(desc, garbageKeywords[k].keywords[i])

\* the outcome of that test for each description the service returns and
\* each category of the table
CategoryMatchTable ==
    [d \in LabelDescriptions |->
        [k \in 1..Len(garbageKeywords) |-> CategoryMatches(k, toLowerCase(d))]]

\* variant: a category outside the table is let through
validCategories_Open ==
    {"E-Waste"} \cup {garbageKeywords[k].cat : k \in 1..Len(garbageKeywords)}

\* Object.keys(garbageKeywords)
validCategories == {garbageKeywords[k].cat : k \in 1..Len(garbageKeywords)}


----------------------------------------------------------------------------
(* analyzeGarbageImage: the primary path (Google Vision), lines 372-439 *)

\* longest label list the labeling service returns in the model
MaxLabels == 2

\* null and undefined in a result field that otherwise holds a string
Null == "null"
Undefined == "undefined"

\* an optional JSON value: <<>> when the key is missing, <<v>> otherwise
Missing == <<>>
Some(v) == <<v>>

\* label scores are hundredths (0.5 is 50); 50 and 80 are the thresholds of
\* the severity rule
LabelScores == {0, 50, 80, 90}
Labels == [description : LabelDescriptions, score : LabelScores]
\* label lists longer than the five descriptions a result keeps: without a
\* matching label, with the only matching label in sixth place, and with a
\* matching label first
LongDescriptionLists ==
    LET Sky == <<"S", "k", "y">>
        Cloud == <<"C", "l", "o", "u", "d">>
        Bag == <<"P", "l", "a", "s", "t", "i", "c", " ", "b", "a", "g">>
    IN { <<Sky, Cloud, Sky, Sky, Sky, Cloud>>,
         <<Sky, Cloud, Cloud, Sky, Sky, Bag>>,
         <<Bag, Sky, Cloud, Sky, Sky, Sky, Cloud>> }
LongLabelLists ==
    {[i \in 1..Len(d) |-> [description |-> d[i], score |-> 90]] :
        d \in LongDescriptionLists}
\* every list of up to MaxLabels labels, and the long lists
LabelLists == UNION {[1..n -> Labels] : n \in 0..MaxLabels} \cup LongLabelLists
\* numbers of localized objects, around the thresholds 2 and 5 of the
\* severity rule
ObjectCounts == {0, 2, 3, 5, 6}

\* the score comparison that lets a matching label take the category
TakesCategory(score, maxScore) == score > maxScore

\* Object.keys(garbageKeywords).forEach(...) for one label, from category k
RECURSIVE CategoryLoop(_, _, _)
CategoryLoop(label, k, st) ==
    IF k > Len(garbageKeywords) THEN st
    ELSE IF CategoryMatchTable[label.description][k]
    THEN CategoryLoop(label, k + 1,
             IF TakesCategory(label.score, st.maxScore)
             THEN [isGarbageDetected |-> TRUE,
                   category |-> garbageKeywords[k].cat,
                   maxScore |-> label.score]
             ELSE [st EXCEPT !.isGarbageDetected = TRUE])
    ELSE CategoryLoop(label, k + 1, st)

\* labels.forEach(...) from label i
RECURSIVE LabelLoop(_, _, _)
LabelLoop(labels, i, st) ==
    IF i > Len(labels) THEN st
    ELSE LabelLoop(labels, i + 1, CategoryLoop(labels[i], 1, st))

\* variant: the whole list is kept
slice0_NoLimit(seq, n) == seq

\* Array.prototype.slice(0, n)
slice0(seq, n) == SubSeq(seq, 1, IF Len(seq) < n THEN Len(seq) ELSE n)

RECURSIVE SumScores(_, _)
SumScores(labels, i) ==
    IF i > Len(labels) THEN 0 ELSE labels[i].score + SumScores(labels, i + 1)

\* variant: the thresholds are inclusive
Severity_Inclusive(objectCount, sum, n) ==
    IF objectCount >= 5 /\ sum >= 80 * n THEN "High"
    ELSE IF objectCount <= 2 \/ sum <= 50 * n THEN "Low"
    ELSE "Medium"

\* severity from the object count and the mean label score sum / n
Severity(objectCount, sum, n) ==
    IF objectCount > 5 /\ sum > 80 * n THEN "High"
    ELSE IF objectCount <= 2 \/ sum < 50 * n THEN "Low"
    ELSE "Medium"

\* parseFloat(avgConfidence.toFixed(2)), in hundredths
toFixed2(sum, n) == (2 * sum + n) \div (2 * n)

VisionResult(labels, objectCount) ==
    LET st == LabelLoop(labels, 1,
                        [isGarbageDetected |-> FALSE,
                         category |-> "Garbage Collection", maxScore |-> 0])
        detectedItems == [i \in 1..Len(labels) |-> labels[i].description]
        sum == SumScores(labels, 1)
    IN IF ~st.isGarbageDetected
       THEN [isGarbage |-> Some(FALSE), category |-> Null, severity |-> Null,
             confidence |-> 0, detectedLabels |-> slice0(detectedItems, 5),
             objectCount |-> 0, analyzedBy |-> "vision"]
       ELSE [isGarbage |-> Some(TRUE), category |-> st.category,
             severity |-> Severity(objectCount, sum, Len(labels)),
             confidence |-> toFixed2(sum, Len(labels)),
             detectedLabels |-> slice0(detectedItems, 5),
             objectCount |-> objectCount, analyzedBy |-> "vision"]

----------------------------------------------------------------------------
(* analyzeGarbageImage: the fallback path (Gemini), lines 440-561 *)

\* The reply text is a sequence of tokens: the two code-fence openers, the
\* braces, the key/value content of an object ("fields"), content that is
\* not JSON ("junk") and prose around the object.
\* the fence openers: three backticks followed by "json", and three backticks
FenceJson == "fence-json"
Fence == "fence"

IndexOfFrom(text, i, toks) ==
    IF \E j \in i..Len(text) : text[j] \in toks
    THEN CHOOSE j \in i..Len(text) :
            text[j] \in toks /\ \A k \in i..(j - 1) : text[k] \notin toks
    ELSE 0

\* text.split(open)[1].split(fence)[0]; the plain fence also occurs inside
\* the json fence opener, so either token ends the part
BetweenFences(text, open) ==
    LET a == IndexOfFrom(text, 1, open)
        b == IndexOfFrom(text, a + 1, {Fence, FenceJson})
    IN SubSeq(text, a + 1, IF b = 0 THEN Len(text) ELSE b - 1)

jsonText(textContent) ==
    IF FenceJson \in SeqRange(textContent)
    THEN BetweenFences(textContent, {FenceJson})
    ELSE IF Fence \in SeqRange(textContent)
    THEN BetweenFences(textContent, {Fence})
    ELSE textContent

\* jsonText.match(/\{[\s\S]*\}/): from the first "{" to the last "}" after it
jsonMatch(text) ==
    LET a == IndexOfFrom(text, 1, {"{"})
        closers == {j \in 1..Len(text) : j > a /\ text[j] = "}"}
    IN IF a = 0 \/ closers = {} THEN <<>>
       ELSE SubSeq(text, a, CHOOSE j \in closers : \A k \in closers : k <= j)

\* JSON.parse accepts an object with its fields or the empty object
ParsesAsJson(match) == match \in {<<"{", "fields", "}">>, <<"{", "}">>}

GeminiTexts ==
    { <<"{", "fields", "}">>,
      <<FenceJson, "{", "fields", "}", Fence>>,
      <<Fence, "{", "fields", "}", Fence>>,
      <<"prose", "{", "fields", "}", "prose">>,
      <<"{", "}">>,
      <<"prose">>,
      <<FenceJson, "prose", Fence, "{", "fields", "}">>,
      <<"{", "junk", "}">>,
      <<"{", "fields", "}", "prose", "{", "fields", "}">> }

\* what the object in the reply holds: each key with a value of the kind the
\* prompt asks for, with null, or missing; "E-Waste" is no key of the
\* category table; the longer item list has six items
GeminiPayloads ==
    [isGarbage : {Some(TRUE), Some(FALSE), Missing},
     category : {Some("Plastic Waste"), Some("E-Waste"), Some(Null), Missing},
     severity : {Some("High"), Some(Null), Missing},
     confidence : {Some(60), Some(0), Missing},
     detectedItems : {Some(<<"bottle", "bag">>),
                      Some(<<"bottle", "bag", "can", "cup", "box", "tin">>),
                      Missing}]

\* geminiData: with or without candidates[0], its text and what the object
\* in the text holds
GeminiReplies ==
    {NoReply} \cup [candidates : {TRUE}, text : GeminiTexts, payload : GeminiPayloads]

\* result.confidence || 0.85, in hundredths
ConfidenceOrDefault(opt) ==
    IF opt = Missing \/ opt[1] = 0 THEN 85 ELSE opt[1]

\* the value read from result.<key>: the value, or undefined
Read(opt) == IF opt = Missing THEN Undefined ELSE opt[1]

\* the object the handler returns from a parsed reply
GeminiResult(payload) ==
    LET category == IF payload.category = Missing
                       \/ payload.category[1] \notin validCategories
                    THEN "Garbage Collection"
                    ELSE payload.category[1]
        items == payload.detectedItems
    IN [isGarbage |-> payload.isGarbage,
        category |-> category,
        severity |-> Read(payload.severity),
        confidence |-> ConfidenceOrDefault(payload.confidence),
        detectedLabels |-> IF items = Missing THEN <<>> ELSE items[1],
        objectCount |-> IF items = Missing THEN 0 ELSE Len(items[1]),
        analyzedBy |-> "gemini"]

\* the fallback try block: "ok" with a result, or the reason it threw
GeminiAttempt(callOk, reply) ==
    LET match == jsonMatch(jsonText(reply.text))
    IN IF ~callOk THEN [threw |-> "fetch failed", result |-> NoPayload]
       ELSE IF ~reply.candidates \/ match = <<>>
       THEN [threw |-> "Gemini response format invalid", result |-> NoPayload]
       ELSE IF ~ParsesAsJson(match)
       THEN [threw |-> "SyntaxError", result |-> NoPayload]
       ELSE [threw |-> None,
             result |-> IF match = <<"{", "}">> THEN NoPayload
                        ELSE reply.payload]


----------------------------------------------------------------------------
(* analyzeGarbageImage: the call, lines 275-567 *)

ImageUris ==
    {None, "https://storage.example/report.jpg",
     "data:image/jpeg;base64,QUJD", "QUJD"}

\* imageUri.startsWith("http://") || imageUri.startsWith("https://")
startsWithHttp(imageUri) == imageUri = "https://storage.example/report.jpg"

\* the outer catch: throw new Error("Failed to analyze image: " + error.message)
Wrapped(message) == <<"Failed to analyze image: ", message>>

BothFailed == "Both Vision and Gemini AI failed to analyze the image"

\* the points where the primary classifier call can raise
PrimaryFailures == {"labelDetection", "objectLocalization"}

\* the inner try block is left through its catch: the fallback is entered
\* variant: the "no garbage detected" outcome also enters the fallback
FallsBack_OnNoGarbage(primary, visionResult) ==
    primary \in PrimaryFailures \/ visionResult.isGarbage = Some(FALSE)

FallsBack(primary, visionResult) == primary \in PrimaryFailures

\* variant: the request is not validated
ImageUriMissing_Never(imageUri) == FALSE

\* if (!imageUri)
ImageUriMissing(imageUri) == ~TruthyStr(imageUri)

\* the request arrives: imageUri is validated
analyzeGarbageImage_Request(imageUri) ==
    /\ cl.pc = "idle"
    /\ cl' = IF ImageUriMissing(imageUri)
             THEN [cl EXCEPT !.pc = "failed", !.imageUri = imageUri,
                             !.error = Wrapped("imageUri is required")]
             ELSE [cl EXCEPT !.pc = "vision", !.imageUri = imageUri]
    /\ UNCHANGED <<triggerVars, cb>>

\* labelDetection and objectLocalization are awaited, the labels are matched
\* against the category table, and the result is returned - or the catch
\* block of the inner try is entered
analyzeGarbageImage_Vision(primary, labels, objectCount) ==
    /\ cl.pc = "vision"
    /\ primary \in PrimaryFailures => labels = <<>> /\ objectCount = 0
    /\ LET visionResult == VisionResult(labels, objectCount)
       IN cl' = IF FallsBack(primary, visionResult)
                THEN [cl EXCEPT !.pc = "fallback", !.primary = primary,
                                !.labels = labels,
                                !.objectCount = objectCount,
                                !.visionCalls = @ + 1,
                                !.fallbackCalls = @ + 1]
                ELSE [cl EXCEPT !.pc = "returned", !.primary = primary,
                                !.labels = labels,
                                !.objectCount = objectCount,
                                !.visionCalls = @ + 1,
                                !.result = visionResult]
    /\ UNCHANGED <<triggerVars, cb>>

\* the image is fetched when the reference is a URL, Gemini is asked once,
\* and its reply is parsed
analyzeGarbageImage_Gemini(fetchOk, callOk, reply) ==
    /\ cl.pc = "fallback"
    /\ ~startsWithHttp(cl.imageUri) => fetchOk
    /\ ~fetchOk => callOk /\ reply = NoReply
    /\ ~callOk => reply = NoReply
    /\ LET attempt == GeminiAttempt(callOk, reply)
           inputs == [cl EXCEPT !.fetchOk = fetchOk, !.callOk = callOk,
                                !.reply = reply]
       IN cl' = IF ~fetchOk
                THEN [inputs EXCEPT !.pc = "failed",
                                    !.error = Wrapped(BothFailed)]
                ELSE IF attempt.threw # None
                THEN [inputs EXCEPT !.pc = "failed",
                                    !.geminiCalls = @ + 1,
                                    !.error = Wrapped(BothFailed)]
                ELSE [inputs EXCEPT !.pc = "returned",
                                    !.geminiCalls = @ + 1,
                                    !.result = GeminiResult(attempt.result)]
    /\ UNCHANGED <<triggerVars, cb>>

ClassifyNext ==
    \/ \E imageUri \in ImageUris : analyzeGarbageImage_Request(imageUri)
    \/ /\ cl.pc = "vision"
       /\ \E primary \in PrimaryFailures \cup {"none"}, labels \in LabelLists,
             objectCount \in ObjectCounts :
            analyzeGarbageImage_Vision(primary, labels, objectCount)
    \/ /\ cl.pc = "fallback"
       /\ \E fetchOk, callOk \in BOOLEAN, reply \in GeminiReplies :
            analyzeGarbageImage_Gemini(fetchOk, callOk, reply)

\* one analyzeGarbageImage call, from the request to its outcome
SpecClassify == Init /\ [][ClassifyNext]_vars

----------------------------------------------------------------------------
(* compareBeforeAfter, src/functions/index.js:637-737 *)

\* most labels of a before or after image that name garbage only, and most
\* that name cleanliness only
MaxGarbageLabels == 5
MaxCleanLabels == 3

\* label descriptions as the labeling service returns them: one naming
\* garbage, one naming both garbage and cleanliness, one naming cleanliness,
\* one naming neither
PlasticBag == <<"P", "l", "a", "s", "t", "i", "c", " ", "b", "a", "g">>
EmptyBottle == <<"E", "m", "p", "t", "y", " ", "b", "o", "t", "t", "l", "e">>
Tidy == <<"T", "i", "d", "y">>
Sky == <<"S", "k", "y">>

Repeat(x, n) == [i \in 1..n |-> x]

\* labelAnnotations of an image: g garbage labels, at most one label of both
\* kinds, c clean labels, at most one other label
AnnotationLists ==
    {Repeat(PlasticBag, g) \o Repeat(EmptyBottle, e) \o Repeat(Tidy, c)
        \o Repeat(Sky, o) :
        g \in 0..MaxGarbageLabels, e \in 0..1, c \in 0..MaxCleanLabels,
        o \in 0..1}

\* beforeResult / afterResult: with labelAnnotations or without
Annotations ==
    {NoAnnotations} \cup [present : {TRUE}, labels : AnnotationLists]

ImageUrls == {None, "https://storage.example/site.jpg"}

\* the garbage keywords of compareBeforeAfter (lines 657-670)
compareGarbageKeywords ==
    << <<"w", "a", "s", "t", "e">>,
       <<"g", "a", "r", "b", "a", "g", "e">>,
       <<"t", "r", "a", "s", "h">>,
       <<"l", "i", "t", "t", "e", "r">>,
       <<"r", "u", "b", "b", "i", "s", "h">>,
       <<"d", "e", "b", "r", "i", "s">>,
       <<"p", "l", "a", "s", "t", "i", "c">>,
       <<"b", "o", "t", "t", "l", "e">>,
       <<"b", "a", "g">>,
       <<"w", "r", "a", "p", "p", "e", "r">>,
       <<"c", "o", "n", "t", "a", "i", "n", "e", "r">>,
       <<"p", "o", "l", "l", "u", "t", "i", "o", "n">> >>

cleanKeywords ==
    << <<"c", "l", "e", "a", "n">>,
       <<"t", "i", "d", "y">>,
       <<"n", "e", "a", "t">>,
       <<"o", "r", "g", "a", "n", "i", "z", "e", "d">>,
       <<"c", "l", "e", "a", "r">>,
       <<"e", "m", "p", "t", "y">> >>

\* keywords.some((keyword) => label.includes(keyword))
someIncluded(label, keywords) ==
    \E i \in 1..Len(keywords) : includes(label, keywords[i])

\* labels.filter((label) => keywords.some(...)).length
filterLength(labels, keywords) ==
    Cardinality({i \in 1..Len(labels) : someIncluded(labels[i], keywords)})

\* labelAnnotations.map((label) => label.description.toLowerCase())
mapToLowerCase(labels) == [i \in 1..Len(labels) |-> toLowerCase(labels[i])]

\* variant: the difference is not floored at 0
garbageReduction_Signed(beforeGarbageCount, afterGarbageCount) ==
    beforeGarbageCount - afterGarbageCount

\* Math.max(0, beforeGarbageCount - afterGarbageCount)
garbageReduction(beforeGarbageCount, afterGarbageCount) ==
    IF beforeGarbageCount - afterGarbageCount > 0
    THEN beforeGarbageCount - afterGarbageCount ELSE 0

\* Math.round(n / d) for integers n >= 0, d > 0: halves round up
RoundDiv(n, d) == (2 * n + d) \div (2 * d)

\* variant: an after image without garbage earns no bonus
cleanlinessScore_NoBonus(reduction, beforeGarbageCount, afterCleanCount, afterGarbageCount) ==
    LET d == IF beforeGarbageCount > 1 THEN beforeGarbageCount ELSE 1
        score == RoundDiv(reduction * 60, d) + afterCleanCount * 10
    IN IF score > 100 THEN 100 ELSE score

\* variant: the share of garbage that remains earns the 60 points
cleanlinessScore_RemainingShare(reduction, beforeGarbageCount, afterCleanCount, afterGarbageCount) ==
    LET d == IF beforeGarbageCount > 1 THEN beforeGarbageCount ELSE 1
        remaining == IF reduction < d THEN d - reduction ELSE 0
        score == RoundDiv(remaining * 60, d) + afterCleanCount * 10
                   + (IF afterGarbageCount = 0 THEN 20 ELSE 0)
    IN IF score > 100 THEN 100 ELSE score

\* Math.min(100, Math.round(reduction / Math.max(before, 1) * 60
\*                          + afterCleanCount * 10 + (after === 0 ? 20 : 0)));
\* the two integer terms pass through the rounding unchanged
cleanlinessScore(reduction, beforeGarbageCount, afterCleanCount, afterGarbageCount) ==
    LET d == IF beforeGarbageCount > 1 THEN beforeGarbageCount ELSE 1
        score == RoundDiv(reduction * 60, d) + afterCleanCount * 10
                   + (IF afterGarbageCount = 0 THEN 20 ELSE 0)
    IN IF score > 100 THEN 100 ELSE score

\* cleanlinessScore >= 70 || (afterGarbageCount === 0 && beforeGarbageCount > 0)
isClean(score, beforeGarbageCount, afterGarbageCount) ==
    score >= 70 \/ (afterGarbageCount = 0 /\ beforeGarbageCount > 0)

\* variant: a score of exactly 50 falls in the lowest tier
message_StrictTier(clean, score) ==
    IF clean THEN "Great job! The area has been successfully cleaned."
    ELSE IF score > 50
    THEN "Good progress, but the area needs more cleaning."
    ELSE "The area still appears to have significant garbage. Please clean more thoroughly."

\* the message ternary of lines 713-721
message(clean, score) ==
    IF clean THEN "Great job! The area has been successfully cleaned."
    ELSE IF score >= 50
    THEN "Good progress, but the area needs more cleaning."
    ELSE "The area still appears to have significant garbage. Please clean more thoroughly."

\* the object compareBeforeAfter returns
CompareResult(beforeAnnotations, afterAnnotations) ==
    LET beforeLabels == mapToLowerCase(beforeAnnotations)
        afterLabels == mapToLowerCase(afterAnnotations)
        beforeGarbageCount == filterLength(beforeLabels, compareGarbageKeywords)
        afterGarbageCount == filterLength(afterLabels, compareGarbageKeywords)
        afterCleanCount == filterLength(afterLabels, cleanKeywords)
        reduction == garbageReduction(beforeGarbageCount, afterGarbageCount)
        score == cleanlinessScore(reduction, beforeGarbageCount,
                                  afterCleanCount, afterGarbageCount)
        clean == isClean(score, beforeGarbageCount, afterGarbageCount)
    IN [isClean |-> clean, message |-> message(clean, score),
        cleanlinessScore |-> score,
        beforeLabels |-> slice0(beforeLabels, 10),
        afterLabels |-> slice0(afterLabels, 10),
        garbageReduction |-> reduction,
        beforeGarbageCount |-> beforeGarbageCount,
        afterGarbageCount |-> afterGarbageCount]

\* the catch: throw new Error("Failed to compare images: " + error.message)
CompareWrapped(msg) == <<"Failed to compare images: ", msg>>

\* variant: only the before image is required
UrlsMissing_BeforeOnly(beforeImageUrl, afterImageUrl) ==
    ~TruthyStr(beforeImageUrl)

\* if (!beforeImageUrl || !afterImageUrl)
UrlsMissing(beforeImageUrl, afterImageUrl) ==
    ~TruthyStr(beforeImageUrl) \/ ~TruthyStr(afterImageUrl)

\* the request arrives: both image URLs are validated
compareBeforeAfter_Request(beforeImageUrl, afterImageUrl) ==
    /\ cb.pc = "idle"
    /\ cb' = IF UrlsMissing(beforeImageUrl, afterImageUrl)
             THEN [cb EXCEPT
                     !.pc = "failed", !.beforeImageUrl = beforeImageUrl,
                     !.afterImageUrl = afterImageUrl,
                     !.error = CompareWrapped(
                         "Both before and after image URLs are required")]
             ELSE [cb EXCEPT !.pc = "before",
                             !.beforeImageUrl = beforeImageUrl,
                             !.afterImageUrl = afterImageUrl]
    /\ UNCHANGED <<triggerVars, cl>>

\* client.labelDetection(beforeImageUrl) is awaited
compareBeforeAfter_Before(ok, beforeResult) ==
    /\ cb.pc = "before"
    /\ ~ok => beforeResult = NoAnnotations
    /\ cb' = IF ~ok
             THEN [cb EXCEPT !.pc = "failed", !.labelCalls = @ + 1,
                             !.failedCall = "before",
                             !.error = CompareWrapped("labelDetection failed")]
             ELSE [cb EXCEPT !.pc = "after", !.labelCalls = @ + 1,
                             !.beforeResult = beforeResult]
    /\ UNCHANGED <<triggerVars, cl>>

\* client.labelDetection(afterImageUrl) is awaited, then the labels are
\* counted and the result is returned
compareBeforeAfter_After(ok, afterResult) ==
    /\ cb.pc = "after"
    /\ ~ok => afterResult = NoAnnotations
    /\ cb' = IF ~ok
             THEN [cb EXCEPT !.pc = "failed", !.labelCalls = @ + 1,
                             !.failedCall = "after",
                             !.error = CompareWrapped("labelDetection failed")]
             ELSE IF ~cb.beforeResult.present \/ ~afterResult.present
             THEN [cb EXCEPT !.pc = "failed", !.labelCalls = @ + 1,
                             !.afterResult = afterResult,
                             !.error = CompareWrapped("TypeError")]
             ELSE [cb EXCEPT
                     !.pc = "returned", !.labelCalls = @ + 1,
                     !.afterResult = afterResult,
                     !.afterCleanCount =
                         filterLength(mapToLowerCase(afterResult.labels),
                                      cleanKeywords),
                     !.result = CompareResult(cb.beforeResult.labels,
                                              afterResult.labels)]
    /\ UNCHANGED <<triggerVars, cl>>

CompareNext ==
    \/ \E beforeImageUrl, afterImageUrl \in ImageUrls :
         compareBeforeAfter_Request(beforeImageUrl, afterImageUrl)
    \/ /\ cb.pc = "before"
       /\ \E ok \in BOOLEAN, beforeResult \in Annotations :
            compareBeforeAfter_Before(ok, beforeResult)
    \/ /\ cb.pc = "after"
       /\ \E ok \in BOOLEAN, afterResult \in Annotations :
            compareBeforeAfter_After(ok, afterResult)

\* one compareBeforeAfter call, from the request to its outcome
SpecCompare == Init /\ [][CompareNext]_vars

----------------------------------------------------------------------------
(* Vocabulary of the claims, stated on the store rather than on handler locals *)

\* NGOs that list the category
MatchingNgos(category) == {n \in DOMAIN ngos : category \in ngos[n]}

\* role=worker, isActive=true, member of an NGO that lists the category
EligibleDoc(doc, category) ==
    /\ doc.role = "worker"
    /\ doc.isActive
    /\ doc.ngoId \in MatchingNgos(category)

\* eligible workers of the store that carry a currentLocation
LocatedEligible(category) ==
    {u \in DOMAIN users : /\ EligibleDoc(users[u], category)
                          /\ users[u].currentLocation # NoLoc}

DistanceTo(report, doc) ==
    getDistance(report.location[1], report.location[2],
                doc.currentLocation[1], doc.currentLocation[2])

\* the report carries a location object and a category
HasLocationAndCategory(report) ==
    report.location # NoLoc /\ report.category # None

\* outcomes of autoAssignNearestWorker that are documented no-ops
NoOpOutcomes ==
    {"locationMissing", "categoryMissing", "noNgos", "noWorkers",
     "noLocatedWorker"}

\* the step just taken is autoAssignNearestWorker's write of report r
AssignedBy(w) == w.writer = "autoAssign"

----------------------------------------------------------------------------
(* Claims about autoAssignNearestWorker *)

\* C1: whenever autoAssignNearestWorker finds a nearest worker W for report
\* R, its write leaves R with assignedTo = W.uid, ngoId = W.ngoId and
\* status = "assigned".
C1_WriteSetsAssigneeNgoAndStatus ==
    AssignedBy(lastWrite) =>
        /\ lastWrite.after.assignedTo = lastWrite.locals.nearestWorker.uid
        /\ lastWrite.after.ngoId = lastWrite.locals.nearestWorker.ngoId
        /\ lastWrite.after.status = "assigned"

\* C2: every successful assignment appends exactly one StatusHistory entry
\* (status "assigned", the worker id) to the report's reportStatus
\* sub-collection, and no step rewrites or removes an entry already present.
C2_AssignmentAppendsOneHistoryEntry ==
    [][/\ AssignedBy(lastWrite') =>
            LET r == lastWrite'.reportId
                n == Len(reportStatus'[r])
            IN /\ n = Len(reportStatus[r]) + 1
               /\ reportStatus'[r][n].status = "assigned"
               /\ reportStatus'[r][n].workerId =
                      lastWrite'.locals.nearestWorker.uid
       /\ \A r \in DOMAIN reportStatus :
            /\ Len(reportStatus'[r]) >= Len(reportStatus[r])
            /\ \A i \in 1..Len(reportStatus[r]) :
                 reportStatus'[r][i] = reportStatus[r][i]]_vars

\* C3: a report that autoAssignNearestWorker assigned has ngoId set as well,
\* and the assigned worker was, in the snapshot the invocation read, an
\* active worker with a location belonging to an NGO that lists the
\* report's category.
C3_AssignedImpliesNgoAndEligibleWorker ==
    AssignedBy(lastWrite) =>
        /\ lastWrite.after.assignedTo # None
        /\ lastWrite.after.ngoId # None
        /\ \E i \in 1..Len(lastWrite.locals.workersSnap) :
             LET doc == lastWrite.locals.workersSnap[i]
             IN /\ doc.uid = lastWrite.after.assignedTo
                /\ EligibleDoc(doc, lastWrite.after.category)
                /\ doc.currentLocation # NoLoc

\* C4: for a report with location and category, the worker the handler
\* selects has the minimum distance among all eligible workers that carry a
\* currentLocation: none of them is strictly nearer, and among those at the
\* selected distance the first in query order is the one kept.
C4_SelectsNearestLocatedWorker ==
    [][\A r \in DOMAIN assign :
         (assign[r].pc = "workers" /\ assign'[r].pc = "update") =>
            LET report == assign[r].report
                chosen == assign'[r].locals.nearestWorker
                located == LocatedEligible(report.category)
            IN /\ HasLocationAndCategory(report)
               /\ chosen.uid \in located
               /\ \A u \in located :
                    /\ DistanceTo(report, users[u]) >=
                           DistanceTo(report, users[chosen.uid])
                    /\ DistanceTo(report, users[u]) =
                           DistanceTo(report, users[chosen.uid])
                         => IdRank(chosen.uid) <= IdRank(u)]_vars

\* C5: autoAssignNearestWorker writes nothing and raises nothing when the
\* report's location is missing, when its category is missing, when the NGO
\* query finds no NGO listing the category, and when the worker query finds
\* no matching active worker carrying a location.
C5_NoOpCasesWriteNothing ==
    [][\A r \in DOMAIN assign :
         LET report == assign[r].report
             returnedNoOp == /\ assign'[r].pc = "returned"
                             /\ assign'[r].outcome \in NoOpOutcomes
                             /\ reports' = reports
                             /\ reportStatus' = reportStatus
                             /\ lastWrite' = IdleWrite
         IN /\ (assign[r].pc = "queued" /\ assign'[r] # assign[r]
                  /\ ~HasLocationAndCategory(report)) => returnedNoOp
            /\ (assign[r].pc = "queued" /\ assign'[r] # assign[r]
                  /\ assign'[r].pc # "raised"
                  /\ HasLocationAndCategory(report)
                  /\ MatchingNgos(report.category) = {}) => returnedNoOp
            /\ (assign[r].pc = "workers" /\ assign'[r] # assign[r]
                  /\ assign'[r].pc # "raised"
                  /\ LocatedEligible(report.category) = {}) => returnedNoOp]_vars

C5_Witness ==
    \E r \in DOMAIN assign :
        /\ assign[r].pc = "returned"
        /\ assign[r].outcome = "noLocatedWorker"
        /\ reports[r].assignedTo = None

\* C6: autoAssignNearestWorker never raises outward, whichever of its
\* collaborator calls (NGO query, worker query, report update) fails.
C6_AssignNeverRaises ==
    \A r \in DOMAIN assign : assign[r].pc # "raised"

----------------------------------------------------------------------------
(* Claims about the notification handlers *)

\* assignedTo is absent in before and present in after
BecomesAssigned(e) == e.before.assignedTo = None /\ e.after.assignedTo # None

\* status becomes "resolved" and the report names its reporter
BecomesResolved(e) ==
    /\ e.before.status # "resolved"
    /\ e.after.status = "resolved"
    /\ e.after.userId # None

\* the notification target the store holds for a user, None without one
TargetOf(uid) ==
    IF uid \in DOMAIN users THEN users[uid].fcmToken ELSE None

\* the run handed exactly this one message to messaging().send
SentExactly(run, type, token, reportId) ==
    /\ Len(run.sends) = 1
    /\ run.sends[1].msg = Message(type, token, reportId)

\* C7: for every report-updated event, onReportAssigned sends a "task
\* assigned" notification if and only if assignedTo is absent in before and
\* present in after.
C7_SentIffBecomesAssigned ==
    last.handler = "onReportAssigned" =>
        (last.sends # <<>> <=> BecomesAssigned(last.event))

\* C7 as amended: the notification is sent if and only if assignedTo goes
\* from absent to present and the lookup of the assigned worker's record
\* succeeds and finds a record that carries a notification target; it is
\* then one message, to that target.
C7_SentIffBecomesAssignedAndTargetFound ==
    last.handler = "onReportAssigned" =>
        LET target == TargetOf(last.event.after.assignedTo)
        IN IF /\ BecomesAssigned(last.event)
              /\ last.lookup # "failed"
              /\ target # None
           THEN SentExactly(last, "task_assigned", target,
                            last.event.reportId)
           ELSE last.sends = <<>>

C7_Witness ==
    /\ last.handler = "onReportAssigned"
    /\ BecomesAssigned(last.event)
    /\ last.lookup = "found"
    /\ Len(last.sends) = 1

\* C8: for a report-updated event whose status becomes "resolved" and whose
\* report names a reporter, onReportResolved reads the reporter's record
\* and, when the record read carries a notification target, sends exactly
\* one "resolved" notification to it; for any other event it sends none.
C8_ResolvedNotifiesReporterOnce ==
    last.handler = "onReportResolved" =>
        LET target == TargetOf(last.event.after.userId)
        IN IF BecomesResolved(last.event)
           THEN /\ last.lookup # "none"
                /\ (last.lookup # "failed" /\ target # None) =>
                      SentExactly(last, "report_resolved", target,
                                  last.event.reportId)
                /\ (last.lookup = "failed" \/ target = None) =>
                      last.sends = <<>>
           ELSE last.lookup = "none" /\ last.sends = <<>>

C8_Witness ==
    /\ last.handler = "onReportResolved"
    /\ BecomesResolved(last.event)
    /\ Len(last.sends) = 1
    /\ last.sends[1].msg.token = "tok_u1"

\* C9: in onReportAssigned, onReportResolved and onWorkerCreated a failed
\* record lookup or a failed send is swallowed: the handler does not raise,
\* never makes a second send attempt and leaves the report and user
\* documents unchanged; an absent notification target gives no send and no
\* error.
C9_NotificationFailuresSwallowed ==
    [][last'.handler # "none" =>
         /\ ~last'.raised
         /\ Len(last'.sends) <= 1
         /\ last'.lookup = "failed" => last'.sends = <<>>
         /\ (last'.lookup # "failed" /\ TargetOf(last'.user) = None)
               => last'.sends = <<>>
         /\ reports' = reports
         /\ users' = users
         /\ reportStatus' = reportStatus]_vars

C9_Witness ==
    /\ last.handler = "onReportResolved"
    /\ Len(last.sends) = 1
    /\ ~last.sends[1].delivered
    /\ ~last.raised

----------------------------------------------------------------------------
(* Claims about analyzeGarbageImage *)

\* the call is over
ClassifyDone == cl.pc \in {"returned", "failed"}

\* the fallback classifier call failed, or its reply is missing, malformed
\* or holds no JSON object
FallbackUnusable ==
    \/ ~cl.fetchOk
    \/ ~cl.callOk
    \/ ~cl.reply.candidates
    \/ "junk" \in SeqRange(cl.reply.text)
    \/ ~\E i, j \in 1..Len(cl.reply.text) :
          i < j /\ cl.reply.text[i] = "{" /\ cl.reply.text[j] = "}"

\* C10: the fallback classifier is invoked exactly once when the primary
\* classifier call raises and never otherwise; when the fallback call fails
\* or its reply is missing, malformed or holds no JSON object the call ends
\* in the "both classifiers failed" error, and once imageUri is present that
\* is the only way the call fails.
C10_FallbackOnceOnlyWhenPrimaryRaises ==
    ClassifyDone =>
        /\ cl.fallbackCalls = (IF cl.primary \in PrimaryFailures THEN 1 ELSE 0)
        /\ cl.geminiCalls <= cl.fallbackCalls
        /\ (cl.fallbackCalls = 1 /\ FallbackUnusable) =>
              cl.pc = "failed" /\ cl.error = Wrapped(BothFailed)
        /\ (cl.pc = "failed" /\ cl.imageUri # None) =>
              /\ cl.error = Wrapped(BothFailed)
              /\ cl.primary \in PrimaryFailures

C10_Witness ==
    /\ cl.pc = "failed"
    /\ cl.fallbackCalls = 1
    /\ cl.callOk /\ cl.reply.candidates
    /\ "junk" \in SeqRange(cl.reply.text)

\* the primary classifier was called and answered
PrimarySucceeded == cl.pc = "returned" /\ cl.visionCalls = 1 /\ cl.primary = "none"

\* no label description contains a keyword of any category
NoLabelMatches(labels) ==
    \A i \in 1..Len(labels), k \in 1..Len(garbageKeywords) :
        \A j \in 1..Len(garbageKeywords[k].keywords) :
            ~includes(toLowerCase(labels[i].description),
                      garbageKeywords[k].keywords[j])

\* the first five descriptions of a label list, or all of a shorter one
FirstFive(labels) ==
    [i \in 1..(IF Len(labels) < 5 THEN Len(labels) ELSE 5) |->
        labels[i].description]

\* C11: when the primary classifier succeeds and no label contains a keyword
\* of any category, the call returns normally, without the fallback, the
\* result isGarbage = false, category = null, severity = null,
\* confidence = 0, objectCount = 0 and the first five (at most) raw label
\* descriptions.
C11_NoMatchIsNormalEmptyResult ==
    (cl.visionCalls = 1 /\ cl.primary = "none" /\ NoLabelMatches(cl.labels)) =>
        /\ cl.pc = "returned"
        /\ cl.error = <<>>
        /\ cl.fallbackCalls = 0 /\ cl.geminiCalls = 0
        /\ cl.result.isGarbage = <<FALSE>>
        /\ cl.result.category = Null
        /\ cl.result.severity = Null
        /\ cl.result.confidence = 0
        /\ cl.result.objectCount = 0
        /\ cl.result.detectedLabels = FirstFive(cl.labels)
        /\ Len(cl.result.detectedLabels) <= 5

C11_Witness ==
    /\ PrimarySucceeded
    /\ NoLabelMatches(cl.labels)
    /\ Len(cl.labels) = 6
    /\ cl.objectCount = 6
    /\ Len(cl.result.detectedLabels) = 5

\* C12: every result the call returns, on the primary or the fallback path,
\* with isGarbage = false has category = null, severity = null and
\* confidence = 0.
C12_NotGarbageHasNullFields ==
    (cl.pc = "returned" /\ cl.result.isGarbage = <<FALSE>>) =>
        /\ cl.result.category = Null
        /\ cl.result.severity = Null
        /\ cl.result.confidence = 0

\* the closed category enumeration
CategoryEnumeration ==
    {"Dead Animals", "Garbage Collection", "Clean Public Space",
     "Overflowing Dustbins", "Construction Waste", "Plastic Waste",
     "Organic Waste", "Drain Cleaning"}

C14_AtMostFiveLabels ==
    cl.pc = "returned" =>
        /\ Len(cl.result.detectedLabels) <= 5
        /\ cl.result.objectCount \in Nat

\* C15: a call without imageUri fails with the validation error and calls
\* neither the primary nor the fallback classifier.
C15_AbsentImageUriFailsBeforeAnyCall ==
    (cl.pc # "idle" /\ cl.imageUri = None) =>
        /\ cl.pc = "failed"
        /\ cl.error = Wrapped("imageUri is required")
        /\ cl.visionCalls = 0
        /\ cl.fallbackCalls = 0
        /\ cl.geminiCalls = 0

C15_Witness ==
    /\ cl.pc = "failed"
    /\ cl.imageUri = None
    /\ cl.error = Wrapped("imageUri is required")

----------------------------------------------------------------------------
(* Claims about compareBeforeAfter *)

\* C16: a call without the before or the after image URL fails with the
\* validation error before any label detection call; with both present, a
\* failing label detection call on either image makes the call fail, with
\* no result and without any other classifier being tried.
C16_CompareValidatesAndHasNoFallback ==
    /\ (cb.pc # "idle" /\ (cb.beforeImageUrl = None \/ cb.afterImageUrl = None))
         => /\ cb.pc = "failed"
            /\ cb.labelCalls = 0
            /\ cb.error = CompareWrapped(
                   "Both before and after image URLs are required")
            /\ cb.result = NoCompareResult
    /\ cb.failedCall # "none"
         => /\ cb.pc = "failed"
            /\ cb.error = CompareWrapped("labelDetection failed")
            /\ cb.result = NoCompareResult
            /\ cb.labelCalls = (IF cb.failedCall = "before" THEN 1 ELSE 2)
            /\ cl = IdleClassify

C16_Witness ==
    /\ cb.pc = "failed"
    /\ cb.beforeImageUrl # None /\ cb.afterImageUrl # None
    /\ cb.failedCall = "after"
    /\ cb.beforeResult.present

\* the integer nearest to n / d (d > 0), halves rounding up: the n with
\* n - 1/2 <= x < n + 1/2
Nearest(n, d) ==
    CHOOSE k \in 0..(n + 1) : (2 * k - 1) * d <= 2 * n /\ 2 * n < (2 * k + 1) * d

\* the score the documented formula gives for the three counts
DocumentedScore(beforeCount, afterCount, afterCleanCount) ==
    LET reduction == IF beforeCount > afterCount THEN beforeCount - afterCount
                     ELSE 0
        d == IF beforeCount > 1 THEN beforeCount ELSE 1
        x == Nearest(reduction * 60 + (afterCleanCount * 10
                       + (IF afterCount = 0 THEN 20 ELSE 0)) * d, d)
    IN IF x < 100 THEN x ELSE 100

\* C17: for the counts of garbage labels before and after and of clean
\* labels after, the result has garbageReduction = max(0, before - after)
\* and cleanlinessScore = min(100, round(reduction / max(before, 1) * 60 +
\* clean * 10 + (20 if after = 0 else 0))), an integer within 0..100;
\* before = 5, after = 0, clean = 2 gives reduction 5, score 100 and
\* isClean true.
C17_ScoreFollowsFormula ==
    cb.pc = "returned" =>
        LET b == cb.result.beforeGarbageCount
            a == cb.result.afterGarbageCount
            c == cb.afterCleanCount
        IN /\ cb.result.garbageReduction = (IF b > a THEN b - a ELSE 0)
           /\ cb.result.cleanlinessScore = DocumentedScore(b, a, c)
           /\ cb.result.cleanlinessScore \in 0..100
           /\ (b = 5 /\ a = 0 /\ c = 2) =>
                 /\ cb.result.garbageReduction = 5
                 /\ cb.result.cleanlinessScore = 100
                 /\ cb.result.isClean

C17_Witness ==
    /\ cb.pc = "returned"
    /\ cb.result.beforeGarbageCount = 5
    /\ cb.result.afterGarbageCount = 0
    /\ cb.afterCleanCount = 2
    /\ cb.result.cleanlinessScore = 100

\* C18: with beforeCount, afterCleanCount and the afterCount = 0 bonus held
\* fixed, cleanlinessScore never decreases when garbageReduction grows: a
\* larger reduction than the one of the call never scores less, a smaller
\* one never more.
C18_ScoreMonotoneInReduction ==
    cb.pc = "returned" =>
        LET b == cb.result.beforeGarbageCount
            a == cb.result.afterGarbageCount
            c == cb.afterCleanCount
            r == cb.result.garbageReduction
        IN \A r2 \in 0..(MaxGarbageLabels + 2) :
             /\ r2 >= r => cleanlinessScore(r2, b, c, a)
                             >= cb.result.cleanlinessScore
             /\ r2 <= r => cleanlinessScore(r2, b, c, a)
                             <= cb.result.cleanlinessScore

C18_Witness ==
    /\ cb.pc = "returned"
    /\ cb.result.garbageReduction = 2
    /\ cb.result.beforeGarbageCount = 4
    /\ cb.result.cleanlinessScore < 100
    /\ cleanlinessScore(3, 4, cb.afterCleanCount, cb.result.afterGarbageCount)
         > cb.result.cleanlinessScore

----------------------------------------------------------------------------
(* Claims about concurrent and repeated autoAssignNearestWorker invocations *)

\* the step is the successful update of the invocation for report r
UpdateStepOf(r) == assign[r].pc = "update" /\ assign'[r].pc = "returned"

\* C19: two invocations for two different reports can both assign the same
\* worker: the update of one invocation writes its selected worker also when
\* another report is already assigned to that worker, so a state with two
\* distinct reports having the same assignedTo is reached.
C19_UpdateIgnoresOtherAssignments ==
    [][\A r \in DOMAIN assign, q \in DOMAIN reports :
         (/\ r # q
          /\ UpdateStepOf(r)
          /\ reports[q].assignedTo = assign[r].locals.nearestWorker.uid)
           => /\ reports'[r].assignedTo = reports'[q].assignedTo
              /\ reports'[q] = reports[q]]_vars

C19_Witness ==
    /\ DOMAIN reports = {"r1", "r2"}
    /\ reports["r1"].assignedTo \in WorkerIds
    /\ reports["r1"].assignedTo = reports["r2"].assignedTo
    /\ lastWrite.writer = "autoAssign"
    /\ lastWrite.before.assignedTo = None

\* C20: assignment is not idempotent under repeated delivery: an invocation
\* for a report that is already assigned searches again without looking at
\* the report's current assignedTo, and its update overwrites assignedTo
\* with the worker it selects now, which differs when worker locations or
\* activity have changed in between.
C20_RedeliveryReassigns ==
    [][\A r \in DOMAIN assign :
         reports[r].assignedTo # None =>
            /\ (/\ assign[r].pc = "queued" /\ assign'[r] # assign[r]
                /\ assign'[r].pc # "raised"
                /\ HasLocationAndCategory(assign[r].report)
                /\ ~LocationMissing(assign[r].report)
                /\ MatchingNgos(assign[r].report.category) # {})
                 => assign'[r].pc = "workers"
            /\ UpdateStepOf(r) =>
                 reports'[r].assignedTo = assign[r].locals.nearestWorker.uid]_vars

C20_Witness ==
    /\ lastWrite.writer = "autoAssign"
    /\ lastWrite.before.assignedTo \in WorkerIds
    /\ lastWrite.after.assignedTo \in WorkerIds
    /\ lastWrite.after.assignedTo # lastWrite.before.assignedTo

----------------------------------------------------------------------------
(* Claims about the results of analyzeGarbageImage *)

\* the primary path returned a result with garbage detected
PrimaryDetected == PrimarySucceeded /\ cl.result.isGarbage = <<TRUE>>

\* the category the highest-scoring matching label stands for: the first of
\* the matching labels with the highest score, and the first category, in
\* table order, with a keyword in its description
BestCategory(labels) ==
    LET Hit(i, k) == CategoryMatches(k, toLowerCase(labels[i].description))
        matching == {i \in 1..Len(labels) :
                        \E k \in 1..Len(garbageKeywords) : Hit(i, k)}
        best == CHOOSE i \in matching :
                    \A j \in matching :
                        \/ labels[j].score < labels[i].score
                        \/ labels[j].score = labels[i].score /\ i <= j
        first == CHOOSE k \in 1..Len(garbageKeywords) :
                    Hit(best, k) /\ \A m \in 1..(k - 1) : ~Hit(best, m)
    IN [label |-> best, cat |-> garbageKeywords[first].cat]

\* C21: on the primary path, when a label matches a keyword set, the
\* returned category is the one matched by the highest-scoring matching
\* label, whatever its score (zero included); among equal scores the first
\* label wins, and for a label matching several categories the first
\* category of the table.
C21_CategoryOfBestLabel ==
    PrimaryDetected => cl.result.category = BestCategory(cl.labels).cat

\* C22: on the primary path with garbage detected, severity is "High"
\* exactly when objectCount > 5 and the mean score of all labels is above
\* 0.8; otherwise "Low" exactly when objectCount <= 2 or the mean is below
\* 0.5; otherwise "Medium"; objectCount is the number of localized objects.
C22_SeverityRule ==
    PrimaryDetected =>
        LET RECURSIVE ScoreTotal(_)
            ScoreTotal(n) ==
                IF n = 0 THEN 0 ELSE ScoreTotal(n - 1) + cl.labels[n].score
            n == Len(cl.labels)
            high == cl.objectCount > 5 /\ ScoreTotal(n) > 80 * n
            low == cl.objectCount <= 2 \/ ScoreTotal(n) < 50 * n
        IN /\ cl.result.objectCount = cl.objectCount
           /\ cl.result.severity = "High" <=> high
           /\ cl.result.severity = "Low" <=> (~high /\ low)
           /\ cl.result.severity = "Medium" <=> (~high /\ ~low)

\* five objects and two labels of mean score 0.5, one of them matching no
\* keyword: neither threshold is passed
C22_Witness ==
    /\ PrimaryDetected
    /\ cl.objectCount = 5
    /\ Len(cl.labels) = 2
    /\ cl.labels[1].score + cl.labels[2].score = 100
    /\ BestCategory(cl.labels).label = 2
    /\ NoLabelMatches(<<cl.labels[1]>>)
    /\ cl.result.severity = "Medium"

\* C23: on the fallback path the returned confidence is the value of the
\* reply's confidence field whenever the reply has one, 0 included, and 0.85
\* only when the field is missing; objectCount is the length of
\* detectedItems, 0 when absent.
C23_FallbackConfidenceAndCount ==
    (/\ cl.pc = "returned" /\ cl.result.analyzedBy = "gemini"
     /\ "fields" \in SeqRange(jsonMatch(jsonText(cl.reply.text)))) =>
        LET payload == cl.reply.payload
        IN /\ cl.result.confidence =
                 (IF payload.confidence = Missing THEN 85
                  ELSE payload.confidence[1])
           /\ cl.result.objectCount =
                 (IF payload.detectedItems = Missing THEN 0
                  ELSE Len(payload.detectedItems[1]))

----------------------------------------------------------------------------
(* Claims about the verdict of compareBeforeAfter *)

\* C24: isClean is (cleanlinessScore >= 70) or (afterCount = 0 and
\* beforeCount > 0); the message is the success text exactly when isClean,
\* the "needs more cleaning" text exactly when not isClean and
\* 50 <= score < 70, and the "still significant garbage" text exactly when
\* not isClean and score < 50.
C24_VerdictAndMessageTiers ==
    cb.pc = "returned" =>
        LET b == cb.result.beforeGarbageCount
            a == cb.result.afterGarbageCount
            score == cb.result.cleanlinessScore
            clean == cb.result.isClean
            text == cb.result.message
        IN /\ clean <=> (score >= 70 \/ (a = 0 /\ b > 0))
           /\ text = "Great job! The area has been successfully cleaned."
                 <=> clean
           /\ text = "Good progress, but the area needs more cleaning."
                 <=> (~clean /\ 50 <= score /\ score < 70)
           /\ text = "The area still appears to have significant garbage. Please clean more thoroughly."
                 <=> (~clean /\ score < 50)

\* half of the garbage is gone and two clean labels are seen: score 50
C24_Witness ==
    /\ cb.pc = "returned"
    /\ ~cb.result.isClean
    /\ cb.result.cleanlinessScore = 50
    /\ cb.result.message = "Good progress, but the area needs more cleaning."

\* C25: afterCount = 0 and beforeCount > 0 imply cleanlinessScore >= 80, so
\* the second disjunct of isClean adds nothing: isClean holds exactly when
\* cleanlinessScore >= 70.
C25_SecondDisjunctRedundant ==
    cb.pc = "returned" =>
        /\ (cb.result.afterGarbageCount = 0 /\ cb.result.beforeGarbageCount > 0)
              => cb.result.cleanlinessScore >= 80
        /\ cb.result.isClean <=> cb.result.cleanlinessScore >= 70

\* all garbage gone and no clean label seen: the score is exactly 80
C25_Witness ==
    /\ cb.pc = "returned"
    /\ cb.result.afterGarbageCount = 0
    /\ cb.result.beforeGarbageCount > 0
    /\ cb.afterCleanCount = 0
    /\ cb.result.cleanlinessScore = 80
    /\ cb.result.isClean

----------------------------------------------------------------------------
(* Claims about what the handlers leave alone *)

\* C26: no handler step creates, modifies or deletes an NGO record or a
\* user record (isActive, currentLocation, fcmToken and ngoId stay as the
\* environment set them); the write of autoAssignNearestWorker for a report
\* changes no other report and not the report's status, so the event it
\* raises satisfies no "resolved" condition, and onReportResolved sends
\* nothing for an event that only changes assignedTo.
C26_HandlersLeaveRecordsAndStatus ==
    [][/\ (budget' = budget /\ DOMAIN reports' = DOMAIN reports)
            => (ngos' = ngos /\ users' = users)
       /\ \A r \in DOMAIN assign :
            UpdateStepOf(r) =>
              /\ DOMAIN reports' = DOMAIN reports
              /\ \A q \in DOMAIN reports \ {r} : reports'[q] = reports[q]
              /\ reports'[r].status = reports[r].status
              /\ lastWrite'.reportId = r
              /\ ~BecomesResolved(lastWrite')
       /\ (/\ last'.handler = "onReportResolved"
           /\ last'.event.before.assignedTo # last'.event.after.assignedTo)
            => last'.sends = <<>>]_vars

\* onReportResolved has handled the event of the assignment of r1, whose
\* reporter has a notification target, and sent nothing; r2 exists
C26_Witness ==
    /\ last.handler = "onReportResolved"
    /\ last.event.reportId = "r1"
    /\ last.event.before.assignedTo = None
    /\ last.event.after.assignedTo \in WorkerIds
    /\ TargetOf(last.event.after.userId) # None
    /\ last.sends = <<>>
    /\ "r2" \in DOMAIN reports
    /\ reports["r2"].assignedTo = None

----------------------------------------------------------------------------
(* Claims about coordinates that are zero *)

\* C27: the presence of a coordinate is tested by truthiness: the invocation
\* for a report whose latitude or longitude is 0 returns as for a report
\* without location and writes nothing, and the worker the handler selects
\* never has a currentLocation with latitude or longitude 0, also when such
\* a worker is the nearest eligible one.
C27_ZeroCoordinateCountsAsAbsent ==
    [][\A r \in DOMAIN assign :
         LET report == assign[r].report
         IN /\ (/\ assign[r].pc = "queued" /\ assign'[r] # assign[r]
                /\ report.location # NoLoc
                /\ (report.location[1] = 0 \/ report.location[2] = 0))
                 => /\ assign'[r].pc = "returned"
                    /\ assign'[r].outcome = "locationMissing"
                    /\ reports' = reports
                    /\ lastWrite' = IdleWrite
            /\ (assign[r].pc = "workers" /\ assign'[r].pc = "update")
                 => LET chosen == users[assign'[r].locals.nearestWorker.uid]
                    IN /\ chosen.currentLocation[1] # 0
                       /\ chosen.currentLocation[2] # 0]_vars

\* w2 is selected for r1 although w1, eligible and at longitude 0, is nearer
C27_Witness ==
    /\ "r1" \in DOMAIN assign
    /\ assign["r1"].pc = "update"
    /\ assign["r1"].locals.nearestWorker.uid = "w2"
    /\ EligibleDoc(users["w1"], assign["r1"].report.category)
    /\ users["w1"].currentLocation = <<1, 0>>
    /\ DistanceTo(assign["r1"].report, users["w1"])
         < DistanceTo(assign["r1"].report, users["w2"])

----------------------------------------------------------------------------
(* Claims about reassignment and about progress *)

\* C28: for a report-updated event in which assignedTo goes from one worker
\* to a different worker, as after a re-delivered create event,
\* onReportAssigned looks nobody up and sends no "task assigned"
\* notification: the new worker is not notified.
C28_ReassignmentNotifiesNobody ==
    (/\ last.handler = "onReportAssigned"
     /\ last.event.before.assignedTo # None
     /\ last.event.after.assignedTo # None
     /\ last.event.before.assignedTo # last.event.after.assignedTo)
      => (last.sends = <<>> /\ last.lookup = "none")

\* a re-delivered create event moved the report from w1 to w2, and the
\* handler has run on the event of that write
C28_Witness ==
    /\ last.handler = "onReportAssigned"
    /\ last.event.before.assignedTo = "w1"
    /\ last.event.after.assignedTo = "w2"
    /\ "w2" \in DOMAIN users
    /\ reports[last.event.reportId].assignedTo = "w2"
    /\ last.sends = <<>>


\* C29: with every pending handler run and no collaborator failing, a
\* created report that has a location and a category, for which an NGO
\* lists the category and an active worker of such an NGO carries a
\* location, is eventually assigned; after the assignment write for a
\* worker whose record carries a notification target, a "task assigned"
\* notification to that target is eventually sent; and no such notification is sent while
\* the report is unassigned.
C29_EligibleReportAssignedAndNotified ==
    /\ (/\ "r1" \in DOMAIN reports
        /\ HasLocationAndCategory(reports["r1"])
        /\ LocatedEligible(reports["r1"].category) # {})
         ~> ("r1" \in DOMAIN reports /\ reports["r1"].assignedTo # None)
    /\ (/\ AssignedBy(lastWrite)
        /\ lastWrite.reportId = "r1"
        /\ TargetOf(lastWrite.after.assignedTo) # None)
         ~> (/\ last.handler = "onReportAssigned"
             /\ SentExactly(last, "task_assigned",
                            TargetOf(reports["r1"].assignedTo), "r1"))
    /\ [](last.handler = "onReportAssigned" /\ last.sends # <<>>
            => reports["r1"].assignedTo # None)

====
